---- MODULE Spec2Model ----
(***************************************************************************)
(* ScholarScope-MCP: the resilient HTTP request client (RequestAPI in      *)
(* src/src/api_requests.py) and the operation handlers that call it        *)
(* (src/src/server.py).                                                    *)
(*                                                                         *)
(* Durations are integers counting quarter seconds: 0.5 s is 2, 8 s is 32, *)
(* the default jitter ceiling 0.25 s is 1.                                 *)
(*                                                                         *)
(* RequestAPI delegates its retry loop to tenacity's Retrying and          *)
(* AsyncRetrying, configured in _retrying/_aretrying.  The loop is         *)
(* modelled as tenacity runs it: after a failed attempt iter() consults    *)
(* retry, then stop, then computes wait, stores it in next_action, calls   *)
(* the before_sleep hook and finally sleeps for the wait it computed.      *)
(***************************************************************************)
EXTENDS Integers, Sequences, FiniteSets, TLC

VARIABLES
    cfg,        \* the client's configuration (RequestAPI.__init__)
    client,     \* self._client: the blocking handle, NoHandle for None
    aclient,    \* self._aclient: the non-blocking handle, NoHandle for None
    handles,    \* every httpx client object created so far, by identity
    call,       \* the logical get()/aget() call and its retry state
    last,       \* the client-level operation performed last, with its pre-state
    calls,      \* what runs together: the calls in flight on the client by call
                \* id, the threads, or the handler tasks with their clients
    eval        \* one application of a helper function: its arguments and result

vars == <<cfg, client, aclient, handles, call, last, calls, eval>>

\* What the operations of one caller at a time leave alone.
aux == <<calls, eval>>

(***************************************************************************)
(* Bounds of the model.                                                    *)
(***************************************************************************)
MaxRetries == 7
MaxJitter == 1
MaxHandles == 2

(***************************************************************************)
(* Program constants.                                                      *)
(***************************************************************************)
NoHandle == 0
DefaultMaxRetries == 3
DefaultJitter == 1
WaitMultiplier == 2
WaitMax == 32
WaitMin == 0
ExpBase == 2
NoContent == 204
NotFound == 404

RETRYABLE_STATUSES == {408, 425, 429, 500, 502, 503, 504}

None == {}

Max2(a, b) == IF a >= b THEN a ELSE b

(***************************************************************************)
(* Inputs: what the transport can answer to one request.                   *)
(***************************************************************************)
Statuses == {200, 204, 403, 404, 429, 500}
Clock == {4}

\* A Retry-After header.  A number carries its value in v.  A date carries in v
\* the time its text shows, in offset the zone offset written with it, and naive
\* tells that the text names no zone (-0000).
Header(form, v, offset, naive) ==
    [form |-> form, v |-> v, offset |-> offset, naive |-> naive]

AbsentHeader == Header("absent", 0, 0, FALSE)

RetryAfterHeaders ==
    { AbsentHeader, Header("empty", 0, 0, FALSE), Header("garbage", 0, 0, FALSE) }
    \cup { Header("number", n, 0, FALSE) : n \in {-4, 0, 8} }
    \cup { Header("date", t, 0, FALSE) : t \in {0, 12} }

\* One hour, the zone offset of the dates written in another zone than GMT.
ZoneOffset == 14400

\* Dates in GMT, in the zone one hour east of it, and without a zone.
DateHeaders ==
    { Header("date", t, o, FALSE) : t \in {0, 12, ZoneOffset, ZoneOffset + 12},
                                     o \in {0, ZoneOffset} }
    \cup { Header("date", t, 0, TRUE) : t \in {0, 12} }

Bodies == { [is_json |-> TRUE, nresults |-> 0], [is_json |-> TRUE, nresults |-> 2],
            [is_json |-> FALSE, nresults |-> 0] }

TextBody == [is_json |-> FALSE, nresults |-> 0]

is_success(status) == status >= 200 /\ status <= 299

Responses ==
    { [kind |-> "response", status |-> s, ra |-> h, body |-> TextBody, err |-> "none"] :
        s \in Statuses \cap RETRYABLE_STATUSES, h \in RetryAfterHeaders }
    \cup
    { [kind |-> "response", status |-> s, ra |-> AbsentHeader, body |-> b, err |-> "none"] :
        s \in { x \in Statuses : is_success(x) }, b \in Bodies }
    \cup
    { [kind |-> "response", status |-> s, ra |-> AbsentHeader, body |-> TextBody, err |-> "none"] :
        s \in { x \in Statuses : ~is_success(x) /\ x \notin RETRYABLE_STATUSES } }

NetworkFailures ==
    { [kind |-> "network", status |-> 0, ra |-> AbsentHeader, body |-> TextBody, err |-> e] :
        e \in {"ConnectError", "ReadTimeout"} }

Outcomes == Responses \cup NetworkFailures

\* The client object the request is made on has been closed: httpx refuses the
\* request with RuntimeError("Cannot send a request, as the client has been
\* closed.") and nothing is sent.
ClosedClient ==
    [kind |-> "closed", status |-> 0, ra |-> AbsentHeader, body |-> TextBody,
     err |-> "none"]

(***************************************************************************)
(* Configurations.                                                         *)
(***************************************************************************)
Cfgs == [max_retries : 0..MaxRetries, return_none_on_404 : BOOLEAN,
         jitter_max_seconds : 0..MaxJitter]

DefaultCfg == [max_retries |-> DefaultMaxRetries, return_none_on_404 |-> FALSE,
               jitter_max_seconds |-> DefaultJitter]

(***************************************************************************)
(* Query parameters.  A dict is a function from the keys it holds to their *)
(* values, a value being None or a singleton.  The params argument of      *)
(* get()/aget() is None, a Mapping, a sequence of (key, value) pairs, or   *)
(* something else (a string).                                              *)
(***************************************************************************)
\* The longest list of pairs passed as params.
MaxPairs == 2

Keys == {"mailto", "page"}

ParamValues == {None} \cup { {v} : v \in {"x@y.com", "1", "2"} }

Dicts == UNION { [K -> ParamValues] : K \in SUBSET Keys }

EmptyDict == [k \in {} |-> None]

Pairs == Keys \X ParamValues

RECURSIVE PairLists(_)
PairLists(n) ==
    IF n = 0 THEN {<<>>}
    ELSE PairLists(n - 1) \cup { Append(l, q) : l \in PairLists(n - 1), q \in Pairs }

Params(shape, map, items) == [shape |-> shape, map |-> map, items |-> items]

NoParams == Params("None", EmptyDict, <<>>)

ParamInputs ==
    {NoParams}
    \cup { Params("Mapping", m, <<>>) : m \in Dicts }
    \cup { Params("pairs", EmptyDict, l) : l \in PairLists(MaxPairs) }
    \cup { Params("str", EmptyDict, <<>>) }

\* {**d, **q}
Overlay(d, q) ==
    [k \in DOMAIN d \cup DOMAIN q |-> IF k \in DOMAIN q THEN q[k] ELSE d[k]]

\* {k: v for k, v in d.items() if v is not None}
DropNone(d) == [k \in {x \in DOMAIN d : d[x] # None} |-> d[k]]

\* Variant of _merge_params: the defaults override the caller's mapping.
_merge_params_defaults_win(default_params, params) ==
    IF params.shape = "None" THEN Params("Mapping", DropNone(default_params), <<>>)
    ELSE IF params.shape = "Mapping"
    THEN Params("Mapping", DropNone(Overlay(params.map, default_params)), <<>>)
    ELSE params

\* Variant of _merge_params: the pairs whose value is None are dropped from a list.
_merge_params_filtering_pairs(default_params, params) ==
    IF params.shape = "None" THEN Params("Mapping", DropNone(default_params), <<>>)
    ELSE IF params.shape = "Mapping"
    THEN Params("Mapping", DropNone(Overlay(default_params, params.map)), <<>>)
    ELSE IF params.shape = "pairs"
    THEN Params("pairs", EmptyDict, SelectSeq(params.items, LAMBDA q : q[2] # None))
    ELSE params

_merge_params(default_params, params) ==
    IF params.shape = "None" THEN Params("Mapping", DropNone(default_params), <<>>)
    ELSE IF params.shape = "Mapping"
    THEN Params("Mapping", DropNone(Overlay(default_params, params.map)), <<>>)
    ELSE IF params.shape = "pairs" THEN params
    ELSE params

(***************************************************************************)
(* Response handling of one attempt.                                       *)
(***************************************************************************)
\* Variant of _parse_retry_after: a negative number is clamped when parsed.
_parse_retry_after_clamping_numbers(ra, now) ==
    IF ra.form \in {"absent", "empty"} THEN None
    ELSE IF ra.form = "number" THEN {Max2(0, ra.v)}
    ELSE IF ra.form = "date"
    THEN {Max2(0, (IF ra.naive THEN ra.v ELSE ra.v - ra.offset) - now)}
    ELSE None

\* Variant of _parse_retry_after: the remaining time of a date is not clamped.
_parse_retry_after_unclamped_date(ra, now) ==
    IF ra.form \in {"absent", "empty"} THEN None
    ELSE IF ra.form = "number" THEN {ra.v}
    ELSE IF ra.form = "date"
    THEN {(IF ra.naive THEN ra.v ELSE ra.v - ra.offset) - now}
    ELSE None

\* float(ra) for a number; else parsedate_to_datetime(ra), a date without zone
\* taken as UTC, and the time left until it from now; None when neither parses.
_parse_retry_after(ra, now) ==
    IF ra.form \in {"absent", "empty"} THEN None
    ELSE IF ra.form = "number" THEN {ra.v}
    ELSE IF ra.form = "date"
    THEN {Max2(0, (IF ra.naive THEN ra.v ELSE ra.v - ra.offset) - now)}
    ELSE None

NoneValue == [kind |-> "None", nresults |-> 0]

\* Variant of _parse: the ValueError of a body that is not JSON is not caught.
_parse_json_or_raise(resp) ==
    IF resp.status = NoContent THEN NoneValue
    ELSE IF resp.body.is_json THEN [kind |-> "json", nresults |-> resp.body.nresults]
    ELSE [kind |-> "ValueError", nresults |-> 0]

_parse(resp) ==
    IF resp.status = NoContent THEN NoneValue
    ELSE IF resp.body.is_json THEN [kind |-> "json", nresults |-> resp.body.nresults]
    ELSE [kind |-> "text", nresults |-> 0]

Returned(v) ==
    [failed |-> FALSE, type |-> "none", status |-> 0, retry_after |-> None,
     err |-> "none", value |-> v]

Raised(t, s, h, e) ==
    [failed |-> TRUE, type |-> t, status |-> s, retry_after |-> h,
     err |-> e, value |-> NoneValue]

_maybe_raise_for_retry(resp, now) ==
    IF resp.status \in RETRYABLE_STATUSES
    THEN Raised("_RetryableStatus", resp.status, _parse_retry_after(resp.ra, now), "none")
    ELSE Returned(NoneValue)

raise_for_status(resp) ==
    IF is_success(resp.status) THEN Returned(NoneValue)
    ELSE Raised("HTTPStatusError", resp.status, None, "none")

\* Variant of _get_once: the 404-as-empty policy is not consulted.
_get_once_without_404_policy(c, h, out, now) ==
    IF h = NoHandle THEN Raised("AttributeError", 0, None, "none")
    ELSE IF out.kind = "closed" THEN Raised("RuntimeError", 0, None, "none")
    ELSE IF out.kind = "network" THEN Raised("RequestError", 0, None, out.err)
    ELSE IF _maybe_raise_for_retry(out, now).failed THEN _maybe_raise_for_retry(out, now)
    ELSE IF raise_for_status(out).failed THEN raise_for_status(out)
    ELSE Returned(_parse(out))

\* h is self._client when the request is issued: on None the attribute access
\* self._client.get fails before any request leaves, and on a client object that
\* has been closed the request is refused (out is ClosedClient).
_get_once(c, h, out, now) ==
    IF h = NoHandle THEN Raised("AttributeError", 0, None, "none")
    ELSE IF out.kind = "closed" THEN Raised("RuntimeError", 0, None, "none")
    ELSE IF out.kind = "network" THEN Raised("RequestError", 0, None, out.err)
    ELSE IF _maybe_raise_for_retry(out, now).failed THEN _maybe_raise_for_retry(out, now)
    ELSE IF out.status = NotFound /\ c.return_none_on_404 THEN Returned(NoneValue)
    ELSE IF raise_for_status(out).failed THEN raise_for_status(out)
    ELSE Returned(_parse(out))

\* Variant of _aget_once: the retryable statuses are not set apart before
\* raise_for_status.
_aget_once_without_retry_check(c, h, out, now) ==
    IF h = NoHandle THEN Raised("AttributeError", 0, None, "none")
    ELSE IF out.kind = "closed" THEN Raised("RuntimeError", 0, None, "none")
    ELSE IF out.kind = "network" THEN Raised("RequestError", 0, None, out.err)
    ELSE IF out.status = NotFound /\ c.return_none_on_404 THEN Returned(NoneValue)
    ELSE IF raise_for_status(out).failed THEN raise_for_status(out)
    ELSE Returned(_parse(out))

\* The awaited twin of _get_once, on self._aclient.
_aget_once(c, h, out, now) ==
    IF h = NoHandle THEN Raised("AttributeError", 0, None, "none")
    ELSE IF out.kind = "closed" THEN Raised("RuntimeError", 0, None, "none")
    ELSE IF out.kind = "network" THEN Raised("RequestError", 0, None, out.err)
    ELSE IF _maybe_raise_for_retry(out, now).failed THEN _maybe_raise_for_retry(out, now)
    ELSE IF out.status = NotFound /\ c.return_none_on_404 THEN Returned(NoneValue)
    ELSE IF raise_for_status(out).failed THEN raise_for_status(out)
    ELSE Returned(_parse(out))

(***************************************************************************)
(* The retry policy built by _retrying / _aretrying.                       *)
(***************************************************************************)
\* Variant of stop_after_attempt: stops one attempt late.
stop_after_attempt_exceeded(attempt_number, max_attempt_number) ==
    attempt_number > max_attempt_number

\* Variant of stop_after_attempt: the loop stops only at the attempt whose number
\* is the limit.
stop_after_attempt_exact(attempt_number, max_attempt_number) ==
    attempt_number = max_attempt_number

stop_after_attempt(attempt_number, max_attempt_number) ==
    attempt_number >= max_attempt_number

\* Variant of wait_exponential: the cap max=8 is missing.
wait_exponential_uncapped(attempt_number) ==
    Max2(WaitMin, WaitMultiplier * ExpBase ^ (attempt_number - 1))

wait_exponential(attempt_number) ==
    LET result == WaitMultiplier * ExpBase ^ (attempt_number - 1)
    IN  Max2(WaitMin, IF result <= WaitMax THEN result ELSE WaitMax)

\* Variant of the retry predicate: every HTTP error is retried.
retry_if_any_http_error(fut) ==
    fut.failed /\ fut.type \in {"_RetryableStatus", "RequestError", "HTTPStatusError"}

\* Variant of the retry predicate: network failures are not retried.
retry_if_retryable_status_only(fut) ==
    fut.failed /\ fut.type \in {"_RetryableStatus"}

retry_if_exception_type(fut) ==
    fut.failed /\ fut.type \in {"_RetryableStatus", "RequestError"}

\* Variant of reraise=True: the failure is wrapped in tenacity's RetryError.
reraise_as_retry_error(fut) == [fut EXCEPT !.type = "RetryError"]

reraise(fut) == fut

_maybe_sleep_until_retry_after(rs) ==
    IF rs.outcome.failed /\ rs.outcome.type = "_RetryableStatus"
       /\ rs.outcome.retry_after # None
    THEN [rs EXCEPT !.next_action_sleep =
             Max2(0, CHOOSE h \in rs.outcome.retry_after : TRUE)]
    ELSE rs

(***************************************************************************)
(* The retry state of one logical call (tenacity's RetryCallState) and the *)
(* loop of Retrying.__call__ / AsyncRetrying.__call__.                     *)
(***************************************************************************)
NoResponse == [kind |-> "none", status |-> 0, err |-> "none"]

NoOutcome ==
    [failed |-> FALSE, type |-> "none", status |-> 0, retry_after |-> None,
     err |-> "none", value |-> NoneValue, attempt |-> 0]

IdleCall ==
    [state |-> "idle", mode |-> "none", handle |-> NoHandle,
     attempt_number |-> 0, requests |-> 0, sleeps |-> 0,
     n_fail |-> 0, only_status |-> TRUE,
     resp |-> NoResponse, outcome |-> NoOutcome,
     base |-> 0, jitter |-> 0, sleep |-> 0, next_action_sleep |-> 0]

begin(mode) ==
    [IdleCall EXCEPT !.state = "attempt", !.mode = mode, !.attempt_number = 1]

InFlight(c) == c.state \in {"attempt", "request", "sleeping"}
Finished(c) == c.state \in {"returned", "raised"}

\* History of a call: the attempt ended in a retryable status or a network failure.
IsRetryableFailure(out) ==
    out.kind = "network" \/ (out.kind = "response" /\ out.status \in RETRYABLE_STATUSES)

\* The function the loop of a call runs: get() hands _get_once to Retrying,
\* aget() hands _aget_once to AsyncRetrying.
attempt_fn(mode, c, h, out, now) ==
    IF mode = "async" THEN _aget_once(c, h, out, now) ELSE _get_once(c, h, out, now)

\* The request of an attempt reaches the transport: there is a handle and it is
\* not closed.
Sent(h, out) == h # NoHandle /\ out.kind # "closed"

\* What the request of an attempt meets on the handle h of a mode: ClosedClient
\* when the handle has been closed, the transport's answer out otherwise.
send(mode, h, hs, out) ==
    IF h # NoHandle /\ [mode |-> mode, id |-> h] \notin hs.open
    THEN ClosedClient
    ELSE out

\* DoAttempt: one run of _get_once/_aget_once on the handle h, answered by out.
\* requests counts the runs; the answer is recorded (resp, n_fail, only_status)
\* only when the request was sent.
set_outcome(rs, c, h, out, now) ==
    [rs EXCEPT !.handle = h,
               !.requests = @ + 1,
               !.resp = IF Sent(h, out)
                        THEN [kind |-> out.kind, status |-> out.status, err |-> out.err]
                        ELSE NoResponse,
               !.n_fail = IF Sent(h, out) /\ IsRetryableFailure(out) THEN @ + 1 ELSE @,
               !.only_status = IF Sent(h, out)
                               THEN @ /\ out.kind = "response"
                                      /\ out.status \in RETRYABLE_STATUSES
                               ELSE @,
               !.outcome = [type |-> attempt_fn(rs.mode, c, h, out, now).type,
                            failed |-> attempt_fn(rs.mode, c, h, out, now).failed,
                            status |-> attempt_fn(rs.mode, c, h, out, now).status,
                            retry_after |-> attempt_fn(rs.mode, c, h, out, now).retry_after,
                            err |-> attempt_fn(rs.mode, c, h, out, now).err,
                            value |-> attempt_fn(rs.mode, c, h, out, now).value,
                            attempt |-> rs.attempt_number]]

\* BaseRetrying.iter once the attempt's outcome is set, under the policy of
\* _retrying().
iter(rs, c, j) ==
    IF ~retry_if_exception_type(rs.outcome)
    THEN [rs EXCEPT !.state = IF rs.outcome.failed THEN "raised" ELSE "returned"]
    ELSE IF stop_after_attempt(rs.attempt_number, c.max_retries)
    THEN [rs EXCEPT !.state = "raised", !.outcome = reraise(rs.outcome)]
    ELSE LET sleep == wait_exponential(rs.attempt_number) + j
             planned == [rs EXCEPT !.base = wait_exponential(rs.attempt_number),
                                   !.jitter = j,
                                   !.next_action_sleep = sleep]
             hooked == _maybe_sleep_until_retry_after(planned)
         IN  [hooked EXCEPT !.state = "sleeping", !.sleep = sleep, !.sleeps = @ + 1]

\* The same step under the policy of _aretrying().
aiter(rs, c, j) ==
    IF ~retry_if_exception_type(rs.outcome)
    THEN [rs EXCEPT !.state = IF rs.outcome.failed THEN "raised" ELSE "returned"]
    ELSE IF stop_after_attempt(rs.attempt_number, c.max_retries)
    THEN [rs EXCEPT !.state = "raised", !.outcome = reraise(rs.outcome)]
    ELSE LET sleep == wait_exponential(rs.attempt_number) + j
             planned == [rs EXCEPT !.base = wait_exponential(rs.attempt_number),
                                   !.jitter = j,
                                   !.next_action_sleep = sleep]
             hooked == _maybe_sleep_until_retry_after(planned)
         IN  [hooked EXCEPT !.state = "sleeping", !.sleep = sleep, !.sleeps = @ + 1]

\* One attempt of a call and the decision that follows it.
attempt_step(rs, c, h, out, now, j) ==
    IF rs.mode = "async"
    THEN aiter(set_outcome(rs, c, h, out, now), c, j)
    ELSE iter(set_outcome(rs, c, h, out, now), c, j)

\* An attempt up to its suspension: self._aclient (self._client) is read and the
\* request handed to it.  With no handle, or a closed one, the attempt fails at
\* once; otherwise the request is out on the handle h and the call waits for the
\* answer, whatever becomes of the client's handle meanwhile.
issue(rs, c, h, hs) ==
    IF h = NoHandle \/ [mode |-> rs.mode, id |-> h] \notin hs.open
    THEN attempt_step(rs, c, h, ClosedClient, 0, 0)
    ELSE [rs EXCEPT !.state = "request", !.handle = h]

\* Variant of prepare_for_next_attempt: an attempt whose failure carried a
\* Retry-After hint does not advance the attempt number.
prepare_for_next_attempt_not_counting_hinted(rs) ==
    [rs EXCEPT !.state = "attempt",
               !.attempt_number = IF rs.outcome.retry_after # None THEN @ ELSE @ + 1,
               !.outcome = NoOutcome, !.resp = NoResponse,
               !.jitter = 0, !.sleep = 0, !.next_action_sleep = 0]

\* RetryCallState.prepare_for_next_attempt, once the sleep is over.
prepare_for_next_attempt(rs) ==
    [rs EXCEPT !.state = "attempt", !.attempt_number = @ + 1,
               !.outcome = NoOutcome, !.resp = NoResponse,
               !.jitter = 0, !.sleep = 0, !.next_action_sleep = 0]

(***************************************************************************)
(* Connection handles.  handles.sync and handles.async count the           *)
(* httpx.Client and httpx.AsyncClient objects created so far (the k-th of  *)
(* a mode has identity k) and handles.open holds those created and not yet *)
(* closed.  An operation also reports the handles whose close()/aclose()   *)
(* it invoked.                                                             *)
(***************************************************************************)
NoHandles == [sync |-> 0, async |-> 0, open |-> {}, closing |-> 0]

Release(hs, mode, h) == [hs EXCEPT !.open = @ \ {[mode |-> mode, id |-> h]}]

Live(mode) == { x.id : x \in { y \in handles.open : y.mode = mode } }

\* Variant of _ensure_client: the test for an absent handle is missing.
_ensure_client_unconditional(cl, hs) ==
    [handle |-> hs.sync + 1,
     handles |-> [hs EXCEPT !.sync = @ + 1,
                            !.open = @ \cup {[mode |-> "sync", id |-> hs.sync + 1]}],
     closed |-> {}]

_ensure_client(cl, hs) ==
    IF cl = NoHandle
    THEN [handle |-> hs.sync + 1,
          handles |-> [hs EXCEPT !.sync = @ + 1,
                                 !.open = @ \cup {[mode |-> "sync", id |-> hs.sync + 1]}],
          closed |-> {}]
    ELSE [handle |-> cl, handles |-> hs, closed |-> {}]

_ensure_aclient(cl, hs) ==
    IF cl = NoHandle
    THEN [handle |-> hs.async + 1,
          handles |-> [hs EXCEPT !.async = @ + 1,
                                 !.open = @ \cup {[mode |-> "async", id |-> hs.async + 1]}],
          closed |-> {}]
    ELSE [handle |-> cl, handles |-> hs, closed |-> {}]

\* Variant of close: self._client is not reset to None.
close_keeps_reference(cl, hs) ==
    IF cl # NoHandle
    THEN [handle |-> cl, handles |-> Release(hs, "sync", cl), closed |-> {cl}]
    ELSE [handle |-> cl, handles |-> hs, closed |-> {}]

close(cl, hs) ==
    IF cl # NoHandle
    THEN [handle |-> NoHandle, handles |-> Release(hs, "sync", cl), closed |-> {cl}]
    ELSE [handle |-> cl, handles |-> hs, closed |-> {}]

\* aclose() up to its suspension.  With no handle it does nothing.  With a
\* handle that is open, await self._aclient.aclose() closes it and the coroutine
\* is suspended with self._aclient still set (hs.closing counts the coroutines
\* suspended there).  On a handle already closed the await has nothing to wait
\* for and self._aclient = None follows at once.
aclose(cl, hs) ==
    IF cl = NoHandle
    THEN [handle |-> cl, handles |-> hs, closed |-> {}]
    ELSE IF [mode |-> "async", id |-> cl] \in hs.open
    THEN [handle |-> cl,
          handles |-> [Release(hs, "async", cl) EXCEPT !.closing = @ + 1],
          closed |-> {cl}]
    ELSE [handle |-> NoHandle, handles |-> hs, closed |-> {}]

\* aclose() resumed after the await: self._aclient = None, whatever it refers to
\* by now.
aclose_resumed(cl, hs) ==
    [handle |-> NoHandle, handles |-> [hs EXCEPT !.closing = @ - 1], closed |-> {}]

\* Variant of __aexit__: the handle is released only when the scope ends normally.
__aexit__on_success_only(raised, cl, hs) ==
    IF raised THEN [handle |-> cl, handles |-> hs, closed |-> {}] ELSE aclose(cl, hs)

\* __exit__ / __aexit__: raised tells whether the scope is left by an exception
\* (exc_type is not None); the handle is closed either way.
__exit__(raised, cl, hs) == close(cl, hs)

__aexit__(raised, cl, hs) == aclose(cl, hs)

\* A handle can be created while the model's bound on handles allows it.
CanEnsure(cl) == cl # NoHandle \/ handles.sync + handles.async < MaxHandles

\* An aclose() is suspended at its await.
Closing == handles.closing > 0

\* The record of an operation: its name, the state it found, the handles it closed.
Op(name, closed) ==
    [op |-> name, client |-> client, aclient |-> aclient,
     sync |-> handles.sync, async |-> handles.async,
     open |-> handles.open, closed |-> closed, raised |-> FALSE]

(***************************************************************************)
(* The operation handlers of server.py.  Each builds a fresh RequestAPI,   *)
(* enters its scope, awaits one aget() and maps the outcome.               *)
(***************************************************************************)
SearchHandlers ==
    {"search_papers", "search_authors", "search_institutions", "papers_by_author",
     "works_citing_paper"}
ListHandlers == {"referenced_works_in_paper", "related_works_of_paper"}

\* A URL given to fetch_fulltext: n copies of the proxy prefix "https://r.jina.ai/"
\* in front of a target.
MaxPrefixes == 2

Targets ==
    { [scheme |-> "https", host |-> "public", spaces |-> FALSE],   \* https://example.com/doc
      [scheme |-> "http", host |-> "loopback", spaces |-> FALSE],  \* http://127.0.0.1/secret
      [scheme |-> "ftp", host |-> "public", spaces |-> FALSE],     \* ftp://example.com
      [scheme |-> "none", host |-> "none", spaces |-> TRUE] }      \* not a url

Urls == [prefixes : 0..MaxPrefixes, target : Targets]

\* preferred_fulltext_url[len(jina_prefix):] when the URL starts with the prefix.
strip_jina_prefix(u) ==
    IF u.prefixes > 0 THEN [u EXCEPT !.prefixes = @ - 1] ELSE u

\* validators.url with the arguments of validate_url_with_ssrf_guard: a URL that
\* still starts with the proxy prefix is an https URL of the public proxy host, whose
\* path is the rest.
validators_url(u) ==
    IF u.target.spaces THEN FALSE
    ELSE IF u.prefixes > 0 THEN TRUE
    ELSE u.target.scheme \in {"http", "https"} /\ u.target.host = "public"

\* How the validators library reports a URL it rejects: by default it returns a
\* ValidationError object, which is falsy; when it is set to raise (r_ve=True, or
\* RAISE_FAILURES=True in the environment) it raises that ValidationError.
RaiseFailures == BOOLEAN

\* What validate_url_with_ssrf_guard returns: the result of validators.url as it
\* is (True, or the ValidationError object), and False when validators.url raised.
validate_url_with_ssrf_guard(u, raise_failures) ==
    IF validators_url(u) THEN "True"
    ELSE IF raise_failures THEN "False"
    ELSE "ValidationError"

\* bool(x) of a returned value.
Truthy(x) == x = "True"

\* Variant of the entry of fetch_fulltext: the request is made whatever the
\* validator says.
fetch_fulltext_unvalidated(u, raise_failures) ==
    [url |-> strip_jina_prefix(u), proceed |-> TRUE]

\* The entry of fetch_fulltext: strip the proxy prefix, validate, and only then
\* go on to build the client.
fetch_fulltext_entry(u, raise_failures) ==
    [url |-> strip_jina_prefix(u),
     proceed |-> Truthy(validate_url_with_ssrf_guard(strip_jina_prefix(u),
                                                     raise_failures))]

ErrorType(name) == IF name = "fetch_fulltext" THEN "ResourceError" ELSE "ToolError"

IdleHandler ==
    [name |-> "none", phase |-> "idle", exc |-> "none", msg_status |-> {},
     msg_network |-> "none", url |-> [prefixes |-> 0,
                                      target |-> [scheme |-> "none", host |-> "none",
                                                  spaces |-> FALSE]], requested |-> FALSE]

\* "per_page": 10 in the parameters of every search handler.
PerPage == 10

\* The last page a caller asks for.
MaxPage == 4

\* meta.count of a response: absent, or a number.
Counts == {None} \cup { {c} : c \in {0, 7, 10, 20, 37, 40} }

\* Variant of page_result: a full last page still announces a next one.
page_result_inclusive(count, page) ==
    [total_count |-> count,
     has_next |-> IF count # None /\ (CHOOSE c \in count : TRUE) # 0
                     /\ (CHOOSE c \in count : TRUE) >= PerPage * page
                  THEN {TRUE} ELSE None]

\* The PageResult a search handler returns: total_count is meta.count, and
\* has_next is True when total_count is truthy and exceeds per_page * page,
\* None otherwise.
page_result(count, page) ==
    [total_count |-> count,
     has_next |-> IF count # None /\ (CHOOSE c \in count : TRUE) # 0
                     /\ (CHOOSE c \in count : TRUE) > PerPage * page
                  THEN {TRUE} ELSE None]

\* The handler's try/except around api.aget(), given the finished call c.
handle_result(h, c) ==
    IF c.state = "raised"
    THEN IF c.outcome.type = "HTTPStatusError"
         THEN [h EXCEPT !.phase = "raised", !.exc = ErrorType(h.name),
                        !.msg_status = {c.outcome.status}]
         ELSE IF c.outcome.type = "RequestError"
         THEN [h EXCEPT !.phase = "raised", !.exc = ErrorType(h.name),
                        !.msg_network = c.outcome.err]
         ELSE [h EXCEPT !.phase = "raised", !.exc = c.outcome.type,
                        !.msg_status = IF c.outcome.type = "_RetryableStatus"
                                       THEN {c.outcome.status} ELSE {}]
    ELSE IF c.outcome.value.kind = "None"
         THEN [h EXCEPT !.phase = "raised", !.exc = "ToolError"]
    ELSE IF h.name = "fetch_fulltext"
         THEN [h EXCEPT !.phase = "returned"]
    ELSE IF c.outcome.value.kind = "text"
         THEN [h EXCEPT !.phase = "raised", !.exc = "AttributeError"]
    ELSE IF c.outcome.value.nresults = 0
         THEN [h EXCEPT !.phase = "raised", !.exc = "ToolError"]
    ELSE [h EXCEPT !.phase = "returned"]

NoEval == [fn |-> "none", args |-> <<>>, done |-> FALSE, out |-> <<>>]

(***************************************************************************)
(* Initial state: a client just constructed, no handle, no call.           *)
(***************************************************************************)
Init ==
    /\ cfg \in Cfgs
    /\ client = NoHandle
    /\ aclient = NoHandle
    /\ handles = NoHandles
    /\ call = IdleCall
    /\ last = [op |-> "__init__", client |-> NoHandle, aclient |-> NoHandle,
               sync |-> 0, async |-> 0, open |-> {}, closed |-> {},
               raised |-> FALSE]
    /\ calls = <<>>
    /\ eval = NoEval

\* The operations of this specification are those of one caller, who awaits each
\* before the next: an operation begins when no call is in flight and no aclose()
\* is suspended.  Calls and aclose() that overlap are those of SpecClose.
Direct == ~InFlight(call) /\ ~Closing

(***************************************************************************)
(* Actions of the client.                                                  *)
(***************************************************************************)
Get ==
    /\ UNCHANGED aux
    /\ Direct
    /\ CanEnsure(client)
    /\ client' = _ensure_client(client, handles).handle
    /\ handles' = _ensure_client(client, handles).handles
    /\ call' = begin("sync")
    /\ last' = Op("get", _ensure_client(client, handles).closed)
    /\ UNCHANGED <<cfg, aclient>>

AGet ==
    /\ UNCHANGED aux
    /\ Direct
    /\ CanEnsure(aclient)
    /\ aclient' = _ensure_aclient(aclient, handles).handle
    /\ handles' = _ensure_aclient(aclient, handles).handles
    /\ call' = begin("async")
    /\ last' = Op("aget", _ensure_aclient(aclient, handles).closed)
    /\ UNCHANGED <<cfg, client>>

\* One attempt: the request is answered by out at time now; j is the jitter drawn
\* by wait_random for the wait that may follow.
Attempt(out, now, j) ==
    /\ UNCHANGED aux
    /\ call.state = "attempt"
    /\ call' = attempt_step(call, cfg,
                             IF call.mode = "sync" THEN client ELSE aclient,
                             send(call.mode,
                                  IF call.mode = "sync" THEN client ELSE aclient,
                                  handles, out),
                             now, j)
    /\ UNCHANGED <<cfg, client, aclient, handles, last>>

\* The sleep before a retry is over.
Wake ==
    /\ UNCHANGED aux
    /\ call.state = "sleeping"
    /\ call' = prepare_for_next_attempt(call)
    /\ UNCHANGED <<cfg, client, aclient, handles, last>>

Close ==
    /\ UNCHANGED aux
    /\ Direct
    /\ client' = close(client, handles).handle
    /\ handles' = close(client, handles).handles
    /\ last' = Op("close", close(client, handles).closed)
    /\ call' = IdleCall
    /\ UNCHANGED <<cfg, aclient>>

\* aclose() up to its await.
AClose ==
    /\ UNCHANGED aux
    /\ Direct
    /\ aclient' = aclose(aclient, handles).handle
    /\ handles' = aclose(aclient, handles).handles
    /\ last' = Op("aclose", aclose(aclient, handles).closed)
    /\ call' = IdleCall
    /\ UNCHANGED <<cfg, client>>

Enter ==
    /\ UNCHANGED aux
    /\ Direct
    /\ CanEnsure(client)
    /\ client' = _ensure_client(client, handles).handle
    /\ handles' = _ensure_client(client, handles).handles
    /\ last' = Op("__enter__", _ensure_client(client, handles).closed)
    /\ call' = IdleCall
    /\ UNCHANGED <<cfg, aclient>>

\* The with scope is left, by an exception of its body (raised) or not.
Exit(raised) ==
    /\ UNCHANGED aux
    /\ Direct
    /\ client' = __exit__(raised, client, handles).handle
    /\ handles' = __exit__(raised, client, handles).handles
    /\ last' = [Op("__exit__", __exit__(raised, client, handles).closed)
                   EXCEPT !.raised = raised]
    /\ call' = IdleCall
    /\ UNCHANGED <<cfg, aclient>>

AEnter ==
    /\ UNCHANGED aux
    /\ Direct
    /\ CanEnsure(aclient)
    /\ aclient' = _ensure_aclient(aclient, handles).handle
    /\ handles' = _ensure_aclient(aclient, handles).handles
    /\ last' = Op("__aenter__", _ensure_aclient(aclient, handles).closed)
    /\ call' = IdleCall
    /\ UNCHANGED <<cfg, client>>

\* The suspended aclose() is resumed (that of __aexit__ too, which returns with
\* it).
ACloseResume ==
    /\ UNCHANGED aux
    /\ Closing
    /\ aclient' = aclose_resumed(aclient, handles).handle
    /\ handles' = aclose_resumed(aclient, handles).handles
    /\ UNCHANGED <<cfg, client, call, last>>

\* The async with scope is left, by an exception of its body (raised) or not:
\* __aexit__ up to the await of aclose().
AExit(raised) ==
    /\ UNCHANGED aux
    /\ Direct
    /\ aclient' = __aexit__(raised, aclient, handles).handle
    /\ handles' = __aexit__(raised, aclient, handles).handles
    /\ last' = [Op("__aexit__", __aexit__(raised, aclient, handles).closed)
                   EXCEPT !.raised = raised]
    /\ call' = IdleCall
    /\ UNCHANGED <<cfg, client>>

Next ==
    \/ Get
    \/ AGet
    \/ \E out \in Outcomes, now \in Clock, j \in 0..cfg.jitter_max_seconds :
           Attempt(out, now, j)
    \/ Wake
    \/ Close
    \/ AClose
    \/ Enter
    \/ \E raised \in BOOLEAN : Exit(raised)
    \/ AEnter
    \/ \E raised \in BOOLEAN : AExit(raised)
    \/ ACloseResume

Spec == Init /\ [][Next]_vars

(***************************************************************************)
(* The handlers run as tasks of one event loop.  Each invocation builds    *)
(* its own RequestAPI, so a task has its own client: calls[t] holds the    *)
(* handler of task t, the handle of its client (aclient), the httpx        *)
(* objects that client has created (handles) and its aget() call.  A task  *)
(* gives way to the others wherever its handler awaits: ctx.info and       *)
(* ctx.error in fetch_fulltext, the request and the sleep of aget(), the   *)
(* aclose() of __aexit__.  handler.phase is the place the task is at.      *)
(***************************************************************************)
TaskIds == {1, 2}

\* The inputs of the tasks: the first runs any handler on any answer, the other
\* a search or a fetch on fewer.
TaskHandlers(t) ==
    IF t = 1 THEN SearchHandlers \cup ListHandlers ELSE {"search_papers"}

TaskUrls(t) ==
    IF t = 1 THEN Urls
    ELSE { u \in Urls : u.prefixes = 0 /\ u.target.host \in {"public", "loopback"}
                        /\ u.target.scheme \in {"http", "https"} }

HandlerOutcomes ==
    { o \in Outcomes :
        \/ o.kind = "network"
        \/ o.kind = "response" /\ o.ra \in {AbsentHeader, Header("number", 8, 0, FALSE)} }

TaskOutcomes(t) ==
    IF t = 1 THEN HandlerOutcomes
    ELSE { o \in HandlerOutcomes :
             \/ o.kind = "response" /\ o.status = 200 /\ o.body.is_json /\ o.body.nresults = 2
             \/ o.kind = "response" /\ o.status = 404
             \/ o.kind = "response" /\ o.status = 500 /\ o.ra = AbsentHeader }

IdleTask ==
    [handler |-> IdleHandler, aclient |-> NoHandle, handles |-> NoHandles,
     call |-> IdleCall]

InitHandlers ==
    /\ cfg = DefaultCfg
    /\ client = NoHandle
    /\ aclient = NoHandle
    /\ handles = NoHandles
    /\ call = IdleCall
    /\ last = [op |-> "init", client |-> NoHandle, aclient |-> NoHandle,
               sync |-> 0, async |-> 0, open |-> {}, closed |-> {},
               raised |-> FALSE]
    /\ calls = [t \in TaskIds |-> IdleTask]
    /\ eval = NoEval

\* fetch_fulltext awaits ctx.error before it raises the error it has made of a
\* failed or empty aget(); the other handlers raise at once, and an exception no
\* except clause names passes through.
AwaitsCtxError(h) ==
    h.name = "fetch_fulltext" /\ h.exc \in {"ResourceError", "ToolError"}

\* The phase of a handler that has ended.
Ended(h) == IF h.exc = "none" THEN "returned" ELSE "raised"

\* The task leaves the async with scope with the result res: __aexit__ runs up to
\* the await of aclose(), or to its end when it has nothing to wait for.
leave_scope(task, res) ==
    [task EXCEPT
        !.aclient = __aexit__(res.exc # "none", task.aclient, task.handles).handle,
        !.handles = __aexit__(res.exc # "none", task.aclient, task.handles).handles,
        !.handler = [res EXCEPT !.phase =
                        IF __aexit__(res.exc # "none", task.aclient,
                                     task.handles).handles.closing > task.handles.closing
                        THEN "aclose" ELSE Ended(res)]]

\* A search or list handler up to its await of api.aget(): RequestAPI(...),
\* __aenter__, then aget() begins.  Nothing is awaited in between.
HandlerStart(t, name) ==
    /\ calls[t].handler.phase = "idle"
    /\ calls' = [calls EXCEPT ![t] =
          [handler |-> [IdleHandler EXCEPT !.name = name, !.phase = "running",
                                           !.requested = TRUE],
           aclient |-> _ensure_aclient(NoHandle, calls[t].handles).handle,
           handles |-> _ensure_aclient(NoHandle, calls[t].handles).handles,
           call |-> begin("async")]]
    /\ UNCHANGED <<cfg, client, aclient, handles, call, last, eval>>

\* fetch_fulltext up to its first await: of ctx.error, for a URL that fails
\* validation (no client is built), or of ctx.info, inside the async with scope
\* (the client is built and its handle is open, aget() has not begun).
FetchFulltextStart(t, u, r) ==
    /\ calls[t].handler.phase = "idle"
    /\ calls' = [calls EXCEPT ![t] =
          IF ~fetch_fulltext_entry(u, r).proceed
          THEN [calls[t] EXCEPT !.handler =
                   [IdleHandler EXCEPT !.name = "fetch_fulltext",
                                       !.phase = "ctx.error",
                                       !.exc = "ResourceError",
                                       !.url = fetch_fulltext_entry(u, r).url]]
          ELSE [handler |-> [IdleHandler EXCEPT !.name = "fetch_fulltext",
                                                !.phase = "ctx.info",
                                                !.url = fetch_fulltext_entry(u, r).url],
                aclient |-> _ensure_aclient(NoHandle, calls[t].handles).handle,
                handles |-> _ensure_aclient(NoHandle, calls[t].handles).handles,
                call |-> IdleCall]]
    /\ UNCHANGED <<cfg, client, aclient, handles, call, last, eval>>

\* fetch_fulltext resumed after ctx.info: aget() begins.
FetchFulltextRequest(t) ==
    /\ calls[t].handler.phase = "ctx.info"
    /\ calls' = [calls EXCEPT ![t].handler.phase = "running",
                              ![t].handler.requested = TRUE,
                              ![t].aclient = _ensure_aclient(@, calls[t].handles).handle,
                              ![t].handles = _ensure_aclient(calls[t].aclient, @).handles,
                              ![t].call = begin("async")]
    /\ UNCHANGED <<cfg, client, aclient, handles, call, last, eval>>

\* The request of the task's call is answered.
HandlerAttempt(t, out, now, j) ==
    /\ calls[t].handler.phase = "running"
    /\ calls[t].call.state = "attempt"
    /\ calls' = [calls EXCEPT ![t].call =
                    attempt_step(@, cfg, calls[t].aclient,
                                 send("async", calls[t].aclient, calls[t].handles, out),
                                 now, j)]
    /\ UNCHANGED <<cfg, client, aclient, handles, call, last, eval>>

\* The sleep of the task's call is over.
HandlerWake(t) ==
    /\ calls[t].handler.phase = "running"
    /\ calls[t].call.state = "sleeping"
    /\ calls' = [calls EXCEPT ![t].call = prepare_for_next_attempt(@)]
    /\ UNCHANGED <<cfg, client, aclient, handles, call, last, eval>>

\* aget() has returned or raised: the handler maps the outcome, and either awaits
\* ctx.error (fetch_fulltext, the handle still open) or leaves the scope.
HandlerFinish(t) ==
    /\ calls[t].handler.phase = "running"
    /\ Finished(calls[t].call)
    /\ calls' = [calls EXCEPT ![t] =
          IF AwaitsCtxError(handle_result(calls[t].handler, calls[t].call))
          THEN [calls[t] EXCEPT !.handler =
                   [handle_result(calls[t].handler, calls[t].call)
                       EXCEPT !.phase = "ctx.error"]]
          ELSE leave_scope(calls[t], handle_result(calls[t].handler, calls[t].call))]
    /\ UNCHANGED <<cfg, client, aclient, handles, call, last, eval>>

\* fetch_fulltext resumed after ctx.error: the error is raised, through __aexit__
\* when it is raised inside the scope.
HandlerRaise(t) ==
    /\ calls[t].handler.phase = "ctx.error"
    /\ calls' = [calls EXCEPT ![t] =
          IF calls[t].handler.requested
          THEN leave_scope(calls[t], calls[t].handler)
          ELSE [calls[t] EXCEPT !.handler.phase = "raised"]]
    /\ UNCHANGED <<cfg, client, aclient, handles, call, last, eval>>

\* The aclose() of __aexit__ is resumed and the handler ends.
HandlerExit(t) ==
    /\ calls[t].handler.phase = "aclose"
    /\ calls' = [calls EXCEPT
          ![t].aclient = aclose_resumed(@, calls[t].handles).handle,
          ![t].handles = aclose_resumed(calls[t].aclient, @).handles,
          ![t].handler.phase = Ended(calls[t].handler)]
    /\ UNCHANGED <<cfg, client, aclient, handles, call, last, eval>>

NextHandlers ==
    \E t \in TaskIds :
        \/ \E name \in TaskHandlers(t) : HandlerStart(t, name)
        \/ \E u \in TaskUrls(t), r \in RaiseFailures : FetchFulltextStart(t, u, r)
        \/ FetchFulltextRequest(t)
        \/ \E out \in TaskOutcomes(t), now \in Clock, j \in 0..cfg.jitter_max_seconds :
               HandlerAttempt(t, out, now, j)
        \/ HandlerWake(t)
        \/ HandlerFinish(t)
        \/ HandlerRaise(t)
        \/ HandlerExit(t)

SpecHandlers == InitHandlers /\ [][NextHandlers]_vars

(***************************************************************************)
(* get() and aget() side by side: one client runs a synchronous and an     *)
(* asynchronous call that are given the same answer, clock and jitter at   *)
(* every attempt.                                                          *)
(***************************************************************************)
InitModes ==
    /\ cfg \in Cfgs
    /\ client = NoHandle
    /\ aclient = NoHandle
    /\ handles = NoHandles
    /\ call = IdleCall
    /\ last = [op |-> "init", client |-> NoHandle, aclient |-> NoHandle,
               sync |-> 0, async |-> 0, open |-> {}, closed |-> {},
               raised |-> FALSE]
    /\ calls = [get |-> IdleCall, aget |-> IdleCall]
    /\ eval = NoEval

\* get(path) and aget(path) are called with the same arguments.
ModesBegin ==
    /\ calls.get.state = "idle" /\ calls.aget.state = "idle"
    /\ client' = _ensure_client(client, handles).handle
    /\ aclient' = _ensure_aclient(aclient, _ensure_client(client, handles).handles).handle
    /\ handles' = _ensure_aclient(aclient, _ensure_client(client, handles).handles).handles
    /\ calls' = [get |-> begin("sync"), aget |-> begin("async")]
    /\ UNCHANGED <<cfg, call, last, eval>>

\* Each call that is at an attempt runs it, on the same answer.
ModesAttempt(out, now, j) ==
    /\ calls.get.state = "attempt" \/ calls.aget.state = "attempt"
    /\ calls' = [get |-> IF calls.get.state = "attempt"
                         THEN attempt_step(calls.get, cfg, client, out, now, j)
                         ELSE calls.get,
                 aget |-> IF calls.aget.state = "attempt"
                          THEN attempt_step(calls.aget, cfg, aclient, out, now, j)
                          ELSE calls.aget]
    /\ UNCHANGED <<cfg, client, aclient, handles, call, last, eval>>

\* Each call that sleeps wakes up.
ModesWake ==
    /\ calls.get.state = "sleeping" \/ calls.aget.state = "sleeping"
    /\ calls' = [get |-> IF calls.get.state = "sleeping"
                         THEN prepare_for_next_attempt(calls.get) ELSE calls.get,
                 aget |-> IF calls.aget.state = "sleeping"
                          THEN prepare_for_next_attempt(calls.aget) ELSE calls.aget]
    /\ UNCHANGED <<cfg, client, aclient, handles, call, last, eval>>

NextModes ==
    \/ ModesBegin
    \/ \E out \in Outcomes, now \in Clock, j \in 0..cfg.jitter_max_seconds :
           ModesAttempt(out, now, j)
    \/ ModesWake

SpecModes == InitModes /\ [][NextModes]_vars

(***************************************************************************)
(* Several aget() calls in flight on one client.  The coroutines interleave *)
(* at their suspension points: the request of an attempt and the sleep      *)
(* before a retry.  calls.objects holds the AsyncRetrying objects built so  *)
(* far, each with the retry state of the call it runs (the k-th built has   *)
(* identity k), and calls.held the object each call holds, 0 before the     *)
(* call has begun.                                                          *)
(***************************************************************************)
MaxCalls == 2
MaxConcRetries == 3

CallIds == 1..MaxCalls

ConcCfgs == { [DefaultCfg EXCEPT !.max_retries = m] : m \in 1..MaxConcRetries }

ConcOutcomes ==
    { o \in Outcomes :
        \/ o.kind = "network" /\ o.err = "ConnectError"
        \/ o.kind = "response" /\ o.status = 200 /\ o.body.is_json /\ o.body.nresults = 2
        \/ o.kind = "response" /\ o.status = 404
        \/ o.kind = "response" /\ o.status = 429 /\ o.ra = Header("number", 8, 0, FALSE)
        \/ o.kind = "response" /\ o.status = 500 /\ o.ra = AbsentHeader }

\* Variant of _aretrying: the AsyncRetrying is built once and kept on the client,
\* where every later call finds it.
_aretrying_kept_on_client(objs) ==
    IF objs = <<>>
    THEN [retrying |-> 1, objects |-> <<IdleCall>>]
    ELSE [retrying |-> 1, objects |-> objs]

\* _aretrying(): every call of it builds a new AsyncRetrying.
_aretrying(objs) ==
    [retrying |-> Len(objs) + 1, objects |-> Append(objs, IdleCall)]

\* The retry state call i works on: that of the AsyncRetrying aget() built for
\* it and called, which holds the attempt counter and the wait plan.
retry_state(cs, i) ==
    IF cs.held[i] = 0 THEN IdleCall ELSE cs.objects[cs.held[i]]

InitConc ==
    /\ cfg \in ConcCfgs
    /\ client = NoHandle
    /\ aclient = NoHandle
    /\ handles = NoHandles
    /\ call = IdleCall
    /\ last = [op |-> "init", client |-> NoHandle, aclient |-> NoHandle,
               sync |-> 0, async |-> 0, open |-> {}, closed |-> {},
               raised |-> FALSE]
    /\ calls = [held |-> [i \in CallIds |-> 0], objects |-> <<>>]
    /\ eval = NoEval

\* Call i enters aget(), the calls being numbered in the order in which they
\* enter it: the handle is ensured, the AsyncRetrying is built, its loop begins
\* and the request of the first attempt is issued; nothing is awaited before
\* that request.
ConcBegin(i) ==
    /\ calls.held[i] = 0
    /\ \A k \in 1..(i - 1) : calls.held[k] # 0
    /\ aclient' = _ensure_aclient(aclient, handles).handle
    /\ handles' = _ensure_aclient(aclient, handles).handles
    /\ calls' = [held |-> [calls.held EXCEPT ![i] = _aretrying(calls.objects).retrying],
                 objects |-> [_aretrying(calls.objects).objects EXCEPT
                                 ![_aretrying(calls.objects).retrying] =
                                     issue(begin("async"), cfg,
                                           _ensure_aclient(aclient, handles).handle,
                                           _ensure_aclient(aclient, handles).handles)]]
    /\ UNCHANGED <<cfg, client, call, last, eval>>

\* The request of call i is answered, on the handle it was issued on, and the
\* loop decides what follows.
ConcAttempt(i, out, now, j) ==
    /\ retry_state(calls, i).state = "request"
    /\ calls' = [calls EXCEPT !.objects[calls.held[i]] =
                    attempt_step(@, cfg, @.handle, out, now, j)]
    /\ UNCHANGED <<cfg, client, aclient, handles, call, last, eval>>

\* The sleep of call i is over: the next attempt issues its request on the handle
\* the client holds now.
ConcWake(i) ==
    /\ retry_state(calls, i).state = "sleeping"
    /\ calls' = [calls EXCEPT !.objects[calls.held[i]] =
                    issue(prepare_for_next_attempt(@), cfg, aclient, handles)]
    /\ UNCHANGED <<cfg, client, aclient, handles, call, last, eval>>

NextConc ==
    \E i \in CallIds :
        \/ ConcBegin(i)
        \/ \E out \in ConcOutcomes, now \in Clock, j \in 0..cfg.jitter_max_seconds :
               ConcAttempt(i, out, now, j)
        \/ ConcWake(i)

SpecConc == InitConc /\ [][NextConc]_vars

\* aclose() is called on the client, up to its await; calls may be in flight.
ConcAClose ==
    /\ aclient # NoHandle
    /\ aclient' = aclose(aclient, handles).handle
    /\ handles' = aclose(aclient, handles).handles
    /\ last' = Op("aclose", aclose(aclient, handles).closed)
    /\ UNCHANGED <<cfg, client, call, calls, eval>>

\* A suspended aclose() is resumed; calls may have begun or made attempts since
\* it was suspended.
ConcACloseResume ==
    /\ Closing
    /\ aclient' = aclose_resumed(aclient, handles).handle
    /\ handles' = aclose_resumed(aclient, handles).handles
    /\ UNCHANGED <<cfg, client, call, last, calls, eval>>

NextClose ==
    \/ NextConc
    \/ ConcAClose
    \/ ConcACloseResume

\* The calls in flight together with aclose().
SpecClose == InitConc /\ [][NextClose]_vars

(***************************************************************************)
(* get() called on one client from several worker threads.  A thread can   *)
(* be preempted anywhere: between the test of _ensure_client (self._client *)
(* is None), the creation of the httpx.Client and its store, and between   *)
(* the read of self._client that issues a request and the answer, during   *)
(* which the thread is blocked in the transport.  close() is called once   *)
(* no call is in flight.                                                   *)
(***************************************************************************)
MaxThreads == 2

ThreadIds == 1..MaxThreads

InitThreads ==
    /\ cfg \in ConcCfgs
    /\ client = NoHandle
    /\ aclient = NoHandle
    /\ handles = NoHandles
    /\ call = IdleCall
    /\ last = [op |-> "init", client |-> NoHandle, aclient |-> NoHandle,
               sync |-> 0, async |-> 0, open |-> {}, closed |-> {},
               raised |-> FALSE]
    /\ calls = [t \in ThreadIds |-> [pc |-> "idle", built |-> NoHandle, rs |-> IdleCall]]
    /\ eval = NoEval

\* Thread t enters get() and evaluates `self._client is None`.
ThreadTest(t) ==
    /\ calls[t].pc = "idle"
    /\ calls' = [calls EXCEPT ![t] =
                    IF client = NoHandle
                    THEN [@ EXCEPT !.pc = "create"]
                    ELSE [@ EXCEPT !.pc = "run", !.rs = begin("sync")]]
    /\ last' = Op("get", {})
    /\ UNCHANGED <<cfg, client, aclient, handles, eval, call>>

\* Thread t, having found no handle, builds an httpx.Client.
ThreadCreate(t) ==
    /\ calls[t].pc = "create"
    /\ handles' = _ensure_client(NoHandle, handles).handles
    /\ calls' = [calls EXCEPT ![t].pc = "store",
                              ![t].built = _ensure_client(NoHandle, handles).handle]
    /\ UNCHANGED <<cfg, client, aclient, call, last, eval>>

\* Thread t stores the httpx.Client it built in self._client, over whatever is
\* there, and the retry loop of its call begins.
ThreadStore(t) ==
    /\ calls[t].pc = "store"
    /\ client' = calls[t].built
    /\ calls' = [calls EXCEPT ![t].pc = "run", ![t].rs = begin("sync")]
    /\ last' = Op("get", {})
    /\ UNCHANGED <<cfg, aclient, handles, call, eval>>

\* The attempt of thread t reads self._client and hands the request to it; the
\* thread is blocked until the answer.
ThreadIssue(t) ==
    /\ calls[t].pc = "run"
    /\ calls[t].rs.state = "attempt"
    /\ calls' = [calls EXCEPT ![t].rs = issue(@, cfg, client, handles)]
    /\ UNCHANGED <<cfg, client, aclient, handles, call, last, eval>>

\* The request of thread t is answered, on the handle it was issued on, and the
\* loop of the thread decides what follows.
ThreadAttempt(t, out, now, j) ==
    /\ calls[t].pc = "run"
    /\ calls[t].rs.state = "request"
    /\ calls' = [calls EXCEPT ![t].rs = attempt_step(@, cfg, @.handle, out, now, j)]
    /\ UNCHANGED <<cfg, client, aclient, handles, call, last, eval>>

\* The sleep of thread t is over: the loop prepares the next attempt.
ThreadWake(t) ==
    /\ calls[t].pc = "run"
    /\ calls[t].rs.state = "sleeping"
    /\ calls' = [calls EXCEPT ![t].rs = prepare_for_next_attempt(@)]
    /\ UNCHANGED <<cfg, client, aclient, handles, call, last, eval>>

\* close(), called when every thread has ended its call.
ThreadsClose ==
    /\ \A t \in ThreadIds : calls[t].pc = "run" /\ Finished(calls[t].rs)
    /\ last.op # "close"
    /\ client' = close(client, handles).handle
    /\ handles' = close(client, handles).handles
    /\ last' = Op("close", close(client, handles).closed)
    /\ UNCHANGED <<cfg, aclient, call, calls, eval>>

NextThreads ==
    \/ \E t \in ThreadIds :
           \/ ThreadTest(t)
           \/ ThreadCreate(t)
           \/ ThreadStore(t)
           \/ ThreadIssue(t)
           \/ \E out \in { o \in ConcOutcomes : o.kind = "response" /\ o.status \in {200, 500} },
                 now \in Clock, j \in 0..cfg.jitter_max_seconds :
                  ThreadAttempt(t, out, now, j)
           \/ ThreadWake(t)
    \/ ThreadsClose

SpecThreads == InitThreads /\ [][NextThreads]_vars

(***************************************************************************)
(* One get() call and its history.  The limit max_retries is any integer   *)
(* the constructor accepts, zero and negative included.  log keeps, for    *)
(* every attempt made, what answered it and the wait that followed;        *)
(* endless tells that the peer of the pending request never ends its       *)
(* response.                                                               *)
(***************************************************************************)
MaxTraceRetries == 3

RetryLimits == {-1, 0} \cup 1..MaxTraceRetries

TraceCfgs ==
    { [max_retries |-> m, return_none_on_404 |-> b, jitter_max_seconds |-> DefaultJitter] :
        m \in RetryLimits, b \in BOOLEAN }

TraceOutcomes ==
    ConcOutcomes
    \cup { o \in Outcomes : o.kind = "response" /\ o.status = 403 }
    \cup { o \in Outcomes : o.kind = "response" /\ o.status = 429
                              /\ o.ra = Header("number", -4, 0, FALSE) }

\* What an answer is to the call, as the response handling sorts it.
Classify(c, out) ==
    IF out.kind = "network" \/ out.status \in RETRYABLE_STATUSES THEN "retryable"
    ELSE IF out.status = NotFound /\ c.return_none_on_404 THEN "not_found"
    ELSE IF is_success(out.status) THEN "success"
    ELSE "fatal"

\* The entry of the history for the attempt that took rs to after.
LogEntry(c, out, now, after) ==
    [kind |-> Classify(c, out),
     hinted |-> out.kind = "response" /\ out.status \in RETRYABLE_STATUSES
                /\ _parse_retry_after(out.ra, now) # None,
     attempt |-> after.requests,
     waited |-> after.state = "sleeping",
     sleep |-> IF after.state = "sleeping" THEN after.sleep ELSE 0,
     jitter |-> IF after.state = "sleeping" THEN after.jitter ELSE 0]

InitTrace ==
    /\ cfg \in TraceCfgs
    /\ client = NoHandle
    /\ aclient = NoHandle
    /\ handles = NoHandles
    /\ call = IdleCall
    /\ last = [op |-> "init", client |-> NoHandle, aclient |-> NoHandle,
               sync |-> 0, async |-> 0, open |-> {}, closed |-> {},
               raised |-> FALSE]
    /\ calls = [rs |-> IdleCall, log |-> <<>>, endless |-> FALSE]
    /\ eval = NoEval

\* get(path) is called.
TraceBegin ==
    /\ calls.rs.state = "idle"
    /\ client' = _ensure_client(client, handles).handle
    /\ handles' = _ensure_client(client, handles).handles
    /\ calls' = [calls EXCEPT !.rs = begin("sync")]
    /\ UNCHANGED <<cfg, aclient, call, last, eval>>

\* The peer that answers the pending request never ends its response and never
\* pauses as long as the timeout: timeout=self.timeout bounds each connect, read,
\* write and pool operation of the request, not the request, so no timeout is
\* raised and self._client.get(...) stays pending.
TraceEndless ==
    /\ calls.rs.state = "attempt"
    /\ ~calls.endless
    /\ calls' = [calls EXCEPT !.endless = TRUE]
    /\ UNCHANGED <<cfg, client, aclient, handles, call, last, eval>>

\* The request of the attempt is answered: by a response that ends, or by a
\* network failure, a timeout among them.
TraceAttempt(out, now, j) ==
    /\ calls.rs.state = "attempt"
    /\ ~calls.endless
    /\ calls' = [calls EXCEPT
                    !.rs = attempt_step(calls.rs, cfg, client, out, now, j),
                    !.log = Append(calls.log,
                                   LogEntry(cfg, out, now,
                                            attempt_step(calls.rs, cfg, client, out, now, j)))]
    /\ UNCHANGED <<cfg, client, aclient, handles, call, last, eval>>

\* The sleep before the retry is over.
TraceWake ==
    /\ calls.rs.state = "sleeping"
    /\ calls' = [calls EXCEPT !.rs = prepare_for_next_attempt(@)]
    /\ UNCHANGED <<cfg, client, aclient, handles, call, last, eval>>

\* A step of the call once it is begun.
TraceStep ==
    \/ \E out \in TraceOutcomes, now \in Clock, j \in 0..cfg.jitter_max_seconds :
           TraceAttempt(out, now, j)
    \/ TraceWake

NextTrace ==
    \/ TraceBegin
    \/ TraceEndless
    \/ TraceStep

SpecTrace == InitTrace /\ [][NextTrace]_vars

\* What the code's scheduling guarantees: a sleep ends, and a request whose
\* response ends or whose transport raises is answered.  A request to a peer
\* that never ends its response is not answered (TraceStep is then disabled).
SpecTraceFair == SpecTrace /\ WF_vars(TraceStep)

(***************************************************************************)
(* The helpers on their own: a helper is applied once to arguments drawn   *)
(* from its inputs.                                                        *)
(***************************************************************************)
Pending(fn, args) == [fn |-> fn, args |-> args, done |-> FALSE, out |-> <<>>]

MergeEvals ==
    { Pending("_merge_params", [default_params |-> d, params |-> q]) :
        d \in Dicts, q \in ParamInputs }

RetryAfterEvals ==
    { Pending("_parse_retry_after", [ra |-> h, now |-> t]) :
        h \in RetryAfterHeaders \cup DateHeaders, t \in Clock }

ParseEvals ==
    { Pending("_parse", r) : r \in { x \in Responses : is_success(x.status) } }

ValidateEvals ==
    { Pending("validate_url_with_ssrf_guard", [url |-> u, raise_failures |-> r]) :
        u \in Urls, r \in RaiseFailures }

PageEvals ==
    { Pending("page_result", [count |-> c, page |-> n]) : c \in Counts, n \in 1..MaxPage }

InitPure ==
    /\ cfg = DefaultCfg
    /\ client = NoHandle
    /\ aclient = NoHandle
    /\ handles = NoHandles
    /\ call = IdleCall
    /\ last = [op |-> "init", client |-> NoHandle, aclient |-> NoHandle,
               sync |-> 0, async |-> 0, open |-> {}, closed |-> {},
               raised |-> FALSE]
    /\ calls = <<>>
    /\ \/ eval \in MergeEvals
       \/ eval \in RetryAfterEvals
       \/ eval \in ParseEvals
       \/ eval \in ValidateEvals
       \/ eval \in PageEvals

Apply(result) ==
    /\ ~eval.done
    /\ eval' = [eval EXCEPT !.done = TRUE, !.out = result]
    /\ UNCHANGED <<cfg, client, aclient, handles, call, last, calls>>

MergeParams ==
    /\ eval.fn = "_merge_params"
    /\ Apply(_merge_params(eval.args.default_params, eval.args.params))

\* The wait the first retry plans for a 429 carrying the header: the hint as
\* parsed, and next_action.sleep once the before_sleep hook has acted on the
\* computed backoff.
RetryAfterWait(ra, now) ==
    LET fut == _maybe_raise_for_retry(
                   [kind |-> "response", status |-> 429, ra |-> ra,
                    body |-> TextBody, err |-> "none"], now)
        planned == [begin("sync") EXCEPT
                       !.outcome = [type |-> fut.type, failed |-> fut.failed,
                                    status |-> fut.status,
                                    retry_after |-> fut.retry_after,
                                    err |-> fut.err, value |-> fut.value,
                                    attempt |-> 1],
                       !.next_action_sleep = wait_exponential(1)]
    IN  [hint |-> _parse_retry_after(ra, now),
         wait |-> _maybe_sleep_until_retry_after(planned).next_action_sleep]

ParseRetryAfter ==
    /\ eval.fn = "_parse_retry_after"
    /\ Apply(RetryAfterWait(eval.args.ra, eval.args.now))

Parse ==
    /\ eval.fn = "_parse"
    /\ Apply(_parse(eval.args))

ValidateUrl ==
    /\ eval.fn = "validate_url_with_ssrf_guard"
    /\ Apply(validate_url_with_ssrf_guard(eval.args.url, eval.args.raise_failures))

PageResult ==
    /\ eval.fn = "page_result"
    /\ Apply(page_result(eval.args.count, eval.args.page))

NextPure ==
    \/ MergeParams
    \/ ParseRetryAfter
    \/ Parse
    \/ ValidateUrl
    \/ PageResult

SpecPure == InitPure /\ [][NextPure]_vars

(***************************************************************************)
(* Properties.                                                             *)
(***************************************************************************)
Hint(fut) == CHOOSE h \in fut.retry_after : TRUE

Hinted(c) ==
    c.outcome.failed /\ c.outcome.type = "_RetryableStatus" /\ c.outcome.retry_after # None

\* The last attempt was answered by a status that is neither a success, nor
\* retryable, nor a 404 under the 404-as-empty policy.
FatalResponse ==
    /\ call.resp.kind = "response"
    /\ ~is_success(call.resp.status)
    /\ call.resp.status \notin RETRYABLE_STATUSES
    /\ ~(call.resp.status = NotFound /\ cfg.return_none_on_404)

\* C1: with max_retries >= 1 a call issues at most max_retries attempts; a call
\* all of whose attempts ended in a retryable status has, once it is over, made
\* exactly max_retries attempts (max_retries - 1 waits) and ended in an error that
\* carries the status of the last response.
C1_AtMostMaxRetriesAttempts ==
    cfg.max_retries >= 1 =>
        /\ call.requests <= cfg.max_retries
        /\ (Finished(call) /\ call.only_status) =>
               /\ call.state = "raised"
               /\ call.requests = cfg.max_retries
               /\ call.sleeps = cfg.max_retries - 1
               /\ call.outcome.type = "_RetryableStatus"
               /\ call.outcome.status = call.resp.status
               /\ call.outcome.status \in RETRYABLE_STATUSES

C1_Witness ==
    /\ cfg.max_retries = 3
    /\ call.state = "raised"
    /\ call.only_status
    /\ call.requests = 3
    /\ call.outcome.status = 500

\* C2: while a call sleeps after a retryable status whose response carried a
\* parsed Retry-After hint h, the wait it sleeps is max(0, h) instead of the
\* computed backoff plus jitter.
C2_SleepEqualsRetryAfterHint ==
    (call.state = "sleeping" /\ Hinted(call)) =>
        call.sleep = Max2(0, Hint(call.outcome))

\* C3: a response with a fatal status ends the call at that attempt with an error
\* carrying the status; no wait follows it, whatever attempts remain.
C3_FatalStatusNotRetried ==
    FatalResponse =>
        /\ call.state = "raised"
        /\ call.outcome.type = "HTTPStatusError"
        /\ call.outcome.status = call.resp.status
        /\ call.sleeps = call.requests - 1

C3_Witness ==
    /\ FatalResponse
    /\ call.resp.status = NotFound
    /\ ~cfg.return_none_on_404
    /\ call.state = "raised"
    /\ call.requests = 2
    /\ cfg.max_retries >= 4

\* C4: with return_none_on_404 set, an attempt answered by 404 makes the call
\* return None: no error is raised and no wait follows that attempt.
C4_NotFoundReturnsNone ==
    (call.resp.kind = "response" /\ call.resp.status = NotFound /\ cfg.return_none_on_404) =>
        /\ call.state = "returned"
        /\ ~call.outcome.failed
        /\ call.outcome.value = NoneValue
        /\ call.sleeps = call.requests - 1

C4_Witness ==
    /\ cfg.return_none_on_404
    /\ call.resp.status = NotFound
    /\ call.state = "returned"
    /\ call.requests = 1
    /\ cfg.max_retries >= 2

\* C5: a network failure of an attempt is retryable: with attempts left the call
\* sleeps before a further attempt, and the failure reaches the caller only once
\* max_retries attempts have been made; a timeout is handled like any other.
C5_NetworkFailureRetried ==
    call.resp.kind = "network" =>
        /\ call.state \in {"sleeping", "raised"}
        /\ call.requests < cfg.max_retries => call.state = "sleeping"
        /\ call.state = "raised" =>
               /\ call.outcome.type = "RequestError"
               /\ call.outcome.err = call.resp.err
               /\ call.requests >= cfg.max_retries

C5_Witness ==
    /\ cfg.max_retries = 3
    /\ call.state = "raised"
    /\ call.resp.kind = "network"
    /\ call.resp.err = "ReadTimeout"
    /\ call.requests = 3
    /\ call.sleeps = 2

\* C6: when each of the max_retries attempts of a call failed retryably, the call
\* has raised, and what it raised is the failure of the last attempt.
C6_LastFailureSurfaces ==
    (cfg.max_retries >= 1 /\ call.n_fail = cfg.max_retries) =>
        /\ call.state = "raised"
        /\ call.outcome.failed
        /\ call.outcome.attempt = call.requests
        /\ call.resp.kind = "network" =>
               (call.outcome.type = "RequestError" /\ call.outcome.err = call.resp.err)
        /\ call.resp.kind = "response" =>
               (call.outcome.type = "_RetryableStatus"
                /\ call.outcome.status = call.resp.status)

C6_Witness ==
    /\ cfg.max_retries = 3
    /\ call.n_fail = 3
    /\ ~call.only_status
    /\ call.state = "raised"
    /\ call.resp.kind = "response"
    /\ call.resp.status = 429

\* C7: when the aget() of a handler has failed, the handler ends in a ToolError
\* (ResourceError in fetch_fulltext) whose message holds the status code or the
\* network error; no other exception leaves the handler.
C7_HandlerReportsToolError ==
    \A t \in TaskIds :
        (calls[t].handler.phase \in {"returned", "raised"} /\ calls[t].handler.requested
            /\ calls[t].call.state = "raised") =>
            /\ calls[t].handler.phase = "raised"
            /\ calls[t].handler.exc = ErrorType(calls[t].handler.name)
            /\ (calls[t].handler.msg_status = {calls[t].call.outcome.status}
                   \/ calls[t].handler.msg_network = calls[t].call.outcome.err)
            /\ (calls[t].handler.msg_status # {} \/ calls[t].handler.msg_network # "none")

\* The base wait before the k-th retry, as the specification states it:
\* 0.5, 1, 2, 4, 8, 8, ... seconds.
BaseWait(k) == IF k >= 5 THEN 32 ELSE 2 ^ k

\* C8: the wait before the k-th retry after a failure without a Retry-After hint
\* is base(k) plus a jitter between 0 and jitter_max_seconds, base(k) being
\* min(8, 0.5 * 2^(k-1)) seconds; the base waits of a call never decrease and
\* never exceed 8 seconds.
C8_ExponentialBackoff ==
    /\ [](call.state = "sleeping" /\ ~Hinted(call) =>
              /\ call.base = BaseWait(call.sleeps)
              /\ call.base <= 32
              /\ call.jitter \in 0..cfg.jitter_max_seconds
              /\ call.sleep = call.base + call.jitter)
    /\ [][(call.state = "attempt" /\ call'.state = "sleeping" /\ call.sleeps >= 1) =>
              (call'.base >= call.base /\ call'.sleeps = call.sleeps + 1)]_vars

C8_Witness ==
    /\ call.state = "sleeping"
    /\ ~Hinted(call)
    /\ call.sleeps = 6
    /\ call.base = 32
    /\ call.jitter = 1
    /\ call.sleep = 33

\* C9: each mode has at most one live handle, the one the client refers to; an
\* operation creates a handle only when the client refers to none, a call made
\* while a handle is live uses that handle, and a call made after a close uses a
\* handle that did not exist before.
C9_AtMostOneLiveHandle ==
    /\ Cardinality(Live("sync")) <= 1
    /\ Cardinality(Live("async")) <= 1
    /\ Live("sync") = IF client = NoHandle THEN {} ELSE {client}
    /\ Live("async") = IF aclient = NoHandle \/ Closing THEN {} ELSE {aclient}
    /\ handles.sync # last.sync =>
           (last.client = NoHandle /\ handles.sync = last.sync + 1)
    /\ handles.async # last.async =>
           (last.aclient = NoHandle /\ handles.async = last.async + 1)
    /\ last.op \in {"get", "__enter__"} =>
           IF last.client # NoHandle
           THEN client = last.client /\ handles.sync = last.sync
           ELSE client = last.sync + 1 /\ [mode |-> "sync", id |-> client] \notin last.open
    /\ last.op \in {"aget", "__aenter__"} =>
           IF last.aclient # NoHandle
           THEN aclient = last.aclient /\ handles.async = last.async
           ELSE aclient = last.async + 1 /\ [mode |-> "async", id |-> aclient] \notin last.open
    /\ (last.op = "get" /\ call.requests >= 1) => call.handle = client
    /\ (last.op = "aget" /\ call.requests >= 1) => call.handle = aclient

C9_Witness ==
    /\ last.op = "get"
    /\ last.client = NoHandle
    /\ last.sync = 1
    /\ client = 2
    /\ Live("sync") = {2}
    /\ call.requests >= 1
    /\ call.handle = 2

\* C10: close()/aclose() closes the live handle once and leaves the client with no
\* handle; called with no handle present it closes nothing.
C10_CloseReleasesOnce ==
    /\ last.op = "close" =>
           /\ client = NoHandle
           /\ Live("sync") = {}
           /\ last.closed = (IF last.client = NoHandle THEN {} ELSE {last.client})
           /\ \A h \in last.closed : [mode |-> "sync", id |-> h] \in last.open
           /\ handles.sync = last.sync
    /\ last.op = "aclose" =>
           /\ aclient = (IF Closing THEN last.aclient ELSE NoHandle)
           /\ Closing => last.aclient # NoHandle
           /\ Live("async") = {}
           /\ last.closed = (IF last.aclient = NoHandle THEN {} ELSE {last.aclient})
           /\ \A h \in last.closed : [mode |-> "async", id |-> h] \in last.open
           /\ handles.async = last.async

C10_Witness ==
    /\ last.op = "close"
    /\ last.client = NoHandle
    /\ last.sync = 1
    /\ last.closed = {}
    /\ handles.open = {}

\* C11: the handle acquired on entering a context-manager scope is released on
\* every exit path, whether the scope is left normally or by an error raised
\* inside it (a not-found error, a fatal status, an error after exhausted
\* retries): __exit__ and __aexit__ close the handle the client holds whatever
\* the way the scope is left, and once the scope is left the client holds no live
\* handle.
C11_ScopeExitReleasesHandle ==
    /\ last.op = "__exit__" =>
           /\ client = NoHandle
           /\ Live("sync") = {}
           /\ last.closed = (IF last.client = NoHandle THEN {} ELSE {last.client})
    /\ last.op = "__aexit__" =>
           /\ Live("async") = {}
           /\ last.closed = (IF last.aclient = NoHandle THEN {} ELSE {last.aclient})
           /\ ~Closing => aclient = NoHandle

C11_Witness ==
    /\ last.op = "__aexit__"
    /\ last.raised
    /\ last.aclient = 2
    /\ [mode |-> "async", id |-> 2] \in last.open
    /\ last.closed = {2}
    /\ ~Closing
    /\ aclient = NoHandle
    /\ handles.open = {}

\* C15: in fetch_fulltext the URL validation precedes every network action: when
\* the prefix-stripped URL fails validation the error is raised with no client
\* constructed and no request issued, and a request is issued only for a URL the
\* validator approved.
C15_ValidationPrecedesNetwork ==
    \A t \in TaskIds, r \in RaiseFailures :
        calls[t].handler.name = "fetch_fulltext" =>
            /\ ~Truthy(validate_url_with_ssrf_guard(calls[t].handler.url, r)) =>
                   /\ calls[t].handler.phase \in {"ctx.error", "raised"}
                   /\ calls[t].handler.exc = "ResourceError"
                   /\ ~calls[t].handler.requested
                   /\ calls[t].call = IdleCall
                   /\ calls[t].aclient = NoHandle
                   /\ calls[t].handles = NoHandles
            /\ calls[t].handler.requested =>
                   Truthy(validate_url_with_ssrf_guard(calls[t].handler.url, r))
            /\ calls[t].call.requests > 0 => calls[t].handler.requested

C15_Witness ==
    /\ calls[1].handler.name = "fetch_fulltext"
    /\ calls[1].handler.phase = "raised"
    /\ calls[1].handler.exc = "ResourceError"
    /\ calls[1].handler.url.prefixes = 0
    /\ calls[1].handler.url.target.host = "loopback"
    /\ ~calls[1].handler.requested
    /\ calls[1].call.requests = 0
    /\ calls[1].handles = NoHandles
    /\ calls[2].handler.name = "fetch_fulltext"
    /\ calls[2].handler.phase = "returned"
    /\ calls[2].call.requests = 1

\* What a call did, apart from the path it took: the mode and the handle it used.
Observed(c) == [c EXCEPT !.mode = "any", !.handle = NoHandle]

\* C12: get() and aget() have identical semantics: with the same configuration
\* and the same outcome of every attempt they make the same number of attempts
\* and of waits, compute the same base waits and end in the same result or error.
C12_GetAndAGetAgree ==
    /\ Observed(calls.get) = Observed(calls.aget)
    /\ calls.get.state # "idle" => calls.get.mode = "sync" /\ calls.aget.mode = "async"

C12_Witness ==
    /\ cfg.max_retries = DefaultMaxRetries
    /\ calls.get.state = "raised" /\ calls.aget.state = "raised"
    /\ calls.get.requests = DefaultMaxRetries /\ calls.aget.requests = DefaultMaxRetries
    /\ calls.get.sleeps = 2 /\ calls.aget.sleeps = 2
    /\ calls.get.base = wait_exponential(2) /\ calls.aget.base = wait_exponential(2)
    /\ calls.get.outcome.type = "_RetryableStatus"
    /\ calls.aget.outcome.type = "_RetryableStatus"

\* The helper fn has been applied.
Applied(fn) == eval.fn = fn /\ eval.done

\* C13: for a mapping P of caller parameters and the defaults D, the merged
\* parameters hold the key k exactly when the value of (P[k] if k in P else D[k])
\* exists and is not None, and hold it with that value: the caller wins, a None
\* default is dropped, a None given by the caller removes the key; with no
\* caller parameters the result is D without its None entries.
C13_MappingMerge ==
    (Applied("_merge_params") /\ eval.args.params.shape \in {"None", "Mapping"}) =>
        LET D == eval.args.default_params
            P == eval.args.params.map
            M == eval.out.map
        IN  /\ eval.out.shape = "Mapping"
            /\ eval.out.items = <<>>
            /\ DOMAIN M \subseteq Keys
            /\ \A k \in Keys :
                   IF k \in DOMAIN P
                   THEN /\ k \in DOMAIN M <=> P[k] # None
                        /\ k \in DOMAIN M => M[k] = P[k]
                   ELSE IF k \in DOMAIN D
                   THEN /\ k \in DOMAIN M <=> D[k] # None
                        /\ k \in DOMAIN M => M[k] = D[k]
                   ELSE k \notin DOMAIN M

C13_Witness ==
    /\ Applied("_merge_params")
    /\ eval.args.default_params = [k \in Keys |-> IF k = "mailto" THEN {"x@y.com"} ELSE {"1"}]
    /\ eval.args.params = Params("Mapping", [k \in {"page"} |-> {"2"}], <<>>)
    /\ eval.out.map = [k \in Keys |-> IF k = "mailto" THEN {"x@y.com"} ELSE {"2"}]

\* C14: caller parameters given as a list of pairs, or in any other shape that
\* is not a mapping, are returned unmodified: no default is added, no pair whose
\* value is None is dropped, order and duplicates are kept.
C14_NonMappingPassThrough ==
    (Applied("_merge_params") /\ eval.args.params.shape \notin {"None", "Mapping"}) =>
        eval.out = eval.args.params

C14_Witness ==
    /\ Applied("_merge_params")
    /\ eval.args.default_params = [k \in Keys |-> IF k = "mailto" THEN {"x@y.com"} ELSE None]
    /\ eval.args.params.shape = "pairs"
    /\ eval.args.params.items = << <<"page", {"1"}>>, <<"page", None>> >>
    /\ eval.out.items = << <<"page", {"1"}>>, <<"page", None>> >>

\* An absolute http or https URL with a syntactically valid public host.
PublicHttpUrl(u) ==
    /\ ~u.target.spaces
    /\ \/ u.prefixes > 0
       \/ u.target.scheme \in {"http", "https"} /\ u.target.host = "public"

\* C16: validate_url_with_ssrf_guard returns true only for an absolute http or
\* https URL with a syntactically valid public host, and for every other input
\* returns the boolean false.
C16_ValidatorReturnsBoolean ==
    Applied("validate_url_with_ssrf_guard") =>
        eval.out = (IF PublicHttpUrl(eval.args.url) THEN "True" ELSE "False")

\* C17: a success response never produces an error from the parsing of its body:
\* 204 gives None whatever the body, otherwise a body that decodes as JSON gives
\* the decoded value and any other body gives the raw text.
C17_ParseNeverFails ==
    Applied("_parse") =>
        /\ eval.out.kind \in {"None", "json", "text"}
        /\ eval.args.status = NoContent => eval.out.kind = "None"
        /\ (eval.args.status # NoContent /\ eval.args.body.is_json) =>
               /\ eval.out.kind = "json"
               /\ eval.out.nresults = eval.args.body.nresults
        /\ (eval.args.status # NoContent /\ ~eval.args.body.is_json) =>
               eval.out.kind = "text"

C17_Witness ==
    /\ Applied("_parse")
    /\ is_success(eval.args.status)
    /\ eval.args.status # NoContent
    /\ ~eval.args.body.is_json
    /\ eval.out.kind = "text"

\* C18: for a numeric Retry-After value v the parser returns exactly v, also when
\* v is negative (nothing is clamped when parsing); the clamp to 0 is made where
\* the wait is set from the hint, so that wait is never negative; an absent or
\* empty header gives no hint.
C18_NumericRetryAfter ==
    Applied("_parse_retry_after") =>
        /\ eval.args.ra.form = "number" =>
               /\ eval.out.hint = {eval.args.ra.v}
               /\ eval.out.wait = Max2(0, eval.args.ra.v)
               /\ eval.out.wait >= 0
        /\ eval.args.ra.form \in {"absent", "empty"} => eval.out.hint = None

C18_Witness ==
    /\ Applied("_parse_retry_after")
    /\ eval.args.ra.form = "number"
    /\ eval.args.ra.v < 0
    /\ eval.out.hint = {eval.args.ra.v}
    /\ eval.out.wait = 0

\* The instant an HTTP-date names, in UTC.
DateInstant(ra) == IF ra.naive THEN ra.v ELSE ra.v - ra.offset

\* C19: for a Retry-After value that is not a number, a valid HTTP-date d gives
\* the hint max(0, d - now) computed in UTC (a date without a zone is taken as
\* UTC): positive for a future date, 0 for a past one, never negative; a value
\* that is neither a number nor a date gives no hint.
C19_DateRetryAfter ==
    Applied("_parse_retry_after") =>
        /\ eval.args.ra.form = "date" =>
               /\ eval.out.hint = {Max2(0, DateInstant(eval.args.ra) - eval.args.now)}
               /\ \A h \in eval.out.hint :
                      /\ h >= 0
                      /\ DateInstant(eval.args.ra) > eval.args.now => h > 0
                      /\ DateInstant(eval.args.ra) <= eval.args.now => h = 0
        /\ eval.args.ra.form = "garbage" => eval.out.hint = None

C19_Witness ==
    /\ Applied("_parse_retry_after")
    /\ eval.args.ra.form = "date"
    /\ eval.args.ra.offset = ZoneOffset
    /\ eval.args.ra.v > eval.args.now
    /\ DateInstant(eval.args.ra) < eval.args.now
    /\ eval.out.hint = {0}

\* A step of one call as the retry policy states it from the call's own record
\* (old) and the answer to its own attempt (new.resp): the call begins, or wakes
\* to its next attempt, or has its request answered; a retryable failure before
\* the last attempt is followed by the wait of the call's own attempt number,
\* and any other answer ends the call.
OwnStep(old, new) ==
    \/ /\ old.state = "idle"
       /\ new.state = "request"
       /\ new.attempt_number = 1
       /\ new.requests = 0
       /\ new.sleeps = 0
    \/ /\ old.state = "sleeping"
       /\ new.state = "request"
       /\ new.attempt_number = old.attempt_number + 1
       /\ new.requests = old.requests
       /\ new.sleeps = old.sleeps
       /\ new.handle = old.handle
    \/ /\ old.state = "request"
       /\ new.attempt_number = old.attempt_number
       /\ new.requests = old.requests + 1
       /\ new.handle = old.handle
       /\ new.resp.kind \in {"response", "network"}
       /\ new.outcome.attempt = old.attempt_number
       /\ LET failure == new.resp.kind = "network"
                         \/ new.resp.status \in RETRYABLE_STATUSES
              ok == ~failure /\ (is_success(new.resp.status)
                                 \/ (new.resp.status = NotFound /\ cfg.return_none_on_404))
          IN  IF failure /\ old.attempt_number < cfg.max_retries
              THEN /\ new.state = "sleeping"
                   /\ new.sleeps = old.sleeps + 1
                   /\ new.jitter \in 0..cfg.jitter_max_seconds
                   /\ new.sleep = BaseWait(old.attempt_number) + new.jitter
              ELSE /\ new.state = (IF ok THEN "returned" ELSE "raised")
                   /\ new.sleeps = old.sleeps
                   /\ new.outcome.failed = ~ok
                   /\ new.outcome.type =
                          (IF ok THEN "none"
                           ELSE IF new.resp.kind = "network" THEN "RequestError"
                           ELSE IF failure THEN "_RetryableStatus"
                           ELSE "HTTPStatusError")
                   /\ ~ok => new.outcome.status = new.resp.status

\* What holds of the calls in every state: the attempt bound and the counters of
\* each call, one AsyncRetrying for each call that has begun, and one handle for
\* all of them.
C20_OwnCounters ==
    /\ \A i \in CallIds :
           /\ retry_state(calls, i).requests <= cfg.max_retries
           /\ retry_state(calls, i).attempt_number =
                  retry_state(calls, i).requests
                      + (IF retry_state(calls, i).state = "request" THEN 1 ELSE 0)
           /\ retry_state(calls, i).state # "idle" =>
                  /\ retry_state(calls, i).sleeps =
                         retry_state(calls, i).attempt_number
                             - (IF retry_state(calls, i).state = "sleeping" THEN 0 ELSE 1)
                  /\ retry_state(calls, i).handle = aclient
                  /\ Live("async") = {aclient}
    /\ \A i, k \in CallIds :
           (i # k /\ calls.held[i] # 0) => calls.held[i] # calls.held[k]

\* C20: when several calls are in flight on the same client, interleaved at
\* their suspension points, each keeps its own attempt counter and wait plan and
\* issues at most max_retries attempts; a step changes the record of one call
\* only, and what that call does next (attempt, wait or outcome) follows from
\* its own record and the answer to its own attempt, whatever the other calls
\* did; the connection handle is the only state the calls share.
C20_CallsAreIndependent ==
    /\ []C20_OwnCounters
    /\ [][\A i \in CallIds :
              retry_state(calls', i) # retry_state(calls, i) =>
                  /\ OwnStep(retry_state(calls, i), retry_state(calls', i))
                  /\ \A k \in CallIds \ {i} :
                         retry_state(calls', k) = retry_state(calls, k)]_vars

C20_Witness ==
    /\ cfg.max_retries = 2
    /\ retry_state(calls, 1).state = "sleeping"
    /\ retry_state(calls, 1).outcome.type = "RequestError"
    /\ retry_state(calls, 1).attempt_number = 1
    /\ retry_state(calls, 2).state = "raised"
    /\ retry_state(calls, 2).requests = 2
    /\ retry_state(calls, 2).outcome.type = "_RetryableStatus"
    /\ retry_state(calls, 1).handle = retry_state(calls, 2).handle
    /\ calls.held[1] # calls.held[2]

\* C21: when get() is called on one client from separate worker threads while
\* the handle is absent, the lazy acquisition still leaves at most one live
\* handle of the blocking mode: no interleaving creates a second handle that is
\* overwritten and left unreleased by close().
C21_ThreadsShareOneHandle ==
    /\ Cardinality(Live("sync")) <= 1
    /\ Live("sync") \subseteq {client} \cup { calls[t].built : t \in { u \in ThreadIds : calls[u].pc = "store" } }
    /\ last.op = "close" => handles.open = {}

\* C22: for a successful search response with total count c (meta.count),
\* per_page p = 10 and page n, the page result carries total_count = c, and
\* has_next is true exactly when c is present and c > p * n; otherwise has_next
\* is absent, also when c = p * n.
C22_HasNext ==
    Applied("page_result") =>
        /\ eval.out.total_count = eval.args.count
        /\ eval.out.has_next \in {None, {TRUE}}
        /\ eval.out.has_next = {TRUE} <=>
               \E c \in eval.args.count : c > PerPage * eval.args.page

C22_Witness ==
    /\ Applied("page_result")
    /\ eval.args.count = {37}
    /\ eval.args.page = 1
    /\ eval.out.total_count = {37}
    /\ eval.out.has_next = {TRUE}

\* C23: a Retry-After hint bears on no wait but the one that follows the
\* response carrying it: a later failure of the same call without a hint (a
\* retryable status without the header, or a network failure) waits the backoff
\* computed for its own attempt number plus jitter, the attempt number counting
\* every earlier attempt, the hinted ones included; no hint is carried over.
C23_HintNotCarriedOver ==
    LET rs == calls.rs
        log == calls.log
    IN  /\ rs.state # "idle" =>
               rs.attempt_number = Len(log) + (IF rs.state = "attempt" THEN 1 ELSE 0)
        /\ \A i \in 1..Len(log) :
               /\ log[i].attempt = i
               /\ (log[i].waited /\ ~log[i].hinted) =>
                      /\ log[i].jitter \in 0..cfg.jitter_max_seconds
                      /\ log[i].sleep = BaseWait(i) + log[i].jitter
        /\ (rs.state = "sleeping" /\ ~log[Len(log)].hinted) =>
               /\ rs.sleep = BaseWait(Len(log)) + rs.jitter
               /\ rs.next_action_sleep = rs.sleep

C23_Witness ==
    /\ Len(calls.log) = 2
    /\ calls.log[1].hinted /\ calls.log[1].waited
    /\ ~calls.log[2].hinted /\ calls.log[2].waited
    /\ calls.log[2].sleep = BaseWait(2) + calls.log[2].jitter
    /\ calls.rs.state = "sleeping"
    /\ calls.rs.resp.kind = "network"

\* The shape of a call's history: only the last attempt can end in something
\* else than a retryable failure, and then the call is over and no wait follows;
\* a call that is over made one wait less than attempts.
C24_Shape ==
    LET rs == calls.rs
        log == calls.log
    IN  /\ \A i \in 1..Len(log) :
               /\ log[i].kind # "retryable" =>
                      i = Len(log) /\ Finished(rs) /\ ~log[i].waited
               /\ i < Len(log) => log[i].waited
        /\ Finished(rs) =>
               /\ rs.requests >= 1
               /\ Len(log) = rs.requests
               /\ ~log[Len(log)].waited
               /\ rs.sleeps = rs.requests - 1
               /\ log[Len(log)].kind \in {"success", "not_found"} <=> rs.state = "returned"
               /\ log[Len(log)].kind \in {"fatal", "retryable"} <=> rs.state = "raised"
               /\ log[Len(log)].kind = "not_found" => rs.outcome.value = NoneValue

\* C24: every call ends in success (a body or the not-found sentinel) or in a
\* fatal failure, and the end is absorbing: after an attempt that ends in
\* success, in the sentinel or in a fatal status there is no further attempt and
\* no wait; no wait follows the last attempt, so a call makes one wait less than
\* attempts.
C24_CallTerminates ==
    /\ []C24_Shape
    /\ [][Finished(calls.rs) => calls' = calls]_vars
    /\ (calls.rs.state = "attempt") ~> Finished(calls.rs)

\* C25: with max_retries <= 0 a call still makes exactly one attempt, never none,
\* and never retries; under persistent retryable failure the number of attempts
\* is max(1, max_retries), and with one attempt it is that attempt's failure
\* that surfaces.
C25_NonPositiveLimit ==
    LET rs == calls.rs
        log == calls.log
    IN  /\ cfg.max_retries <= 0 =>
               /\ rs.requests <= 1
               /\ rs.sleeps = 0
               /\ rs.state # "sleeping"
               /\ Finished(rs) => rs.requests = 1
        /\ (Finished(rs) /\ \A i \in 1..Len(log) : log[i].kind = "retryable") =>
               /\ rs.requests = Max2(1, cfg.max_retries)
               /\ rs.state = "raised"
               /\ rs.outcome.type \in {"_RetryableStatus", "RequestError"}
               /\ rs.outcome.attempt = rs.requests
               /\ rs.outcome.status = rs.resp.status
               /\ rs.outcome.err = rs.resp.err

C25_Witness ==
    /\ cfg.max_retries < 0
    /\ calls.rs.state = "raised"
    /\ calls.rs.requests = 1
    /\ calls.rs.sleeps = 0
    /\ calls.rs.outcome.type = "_RetryableStatus"
    /\ calls.log[1].kind = "retryable"

\* C26: under any interleaving of aget() calls in flight and aclose() on one
\* client no attempt is issued while the handle is absent: a call that sleeps
\* before a retry when aclose() runs makes its next attempt on a live handle and
\* still ends in a result, the not-found sentinel, a fatal status error or the
\* retryable error of exhausted retries.
C26_NoAttemptWithoutHandle ==
    \A i \in CallIds :
        /\ retry_state(calls, i).requests > 0 =>
               /\ retry_state(calls, i).handle # NoHandle
               /\ [mode |-> "async", id |-> retry_state(calls, i).handle] \in handles.open
                  \/ last.op = "aclose"
        /\ Finished(retry_state(calls, i)) =>
               retry_state(calls, i).outcome.type \in
                   {"none", "HTTPStatusError", "_RetryableStatus", "RequestError"}

\* C27: in fetch_fulltext the stripping of the proxy prefix is idempotent on
\* every input, strip(strip(u)) = strip(u): the URL that is validated and then
\* sent to the proxy never begins with the proxy prefix, also when the caller's
\* URL carries the prefix more than once.
C27_StripIsIdempotent ==
    \A t \in TaskIds :
        calls[t].handler.name = "fetch_fulltext" =>
            /\ strip_jina_prefix(calls[t].handler.url) = calls[t].handler.url
            /\ calls[t].handler.requested => calls[t].handler.url.prefixes = 0

====
